---- MODULE Spec2Model ----
(***************************************************************************)
(* Model of src/src/backen/Server.js: the Redux cart store (reducer and    *)
(* action creators), the Cart component's handleCheckout, and the Express  *)
(* routes GET /products, POST /products and POST /orders over the two      *)
(* Mongoose collections.                                                   *)
(*                                                                         *)
(* Identifiers (cart item ids, line item ids, ObjectIds) are modelled as   *)
(* naturals standing for opaque id strings; ObjectIds are numbered from 1, *)
(* so 0 is an id that names no stored document.                            *)
(* Prices and totals are integer-valued numbers.                           *)
(***************************************************************************)
EXTENDS Integers, Sequences, FiniteSets, TLC

VARIABLES
    state,      \* the Redux store's state: [cart |-> sequence of cart items]
    log,        \* history: the actions dispatched to the store, in order
    calls,      \* the invocations of handleCheckout, in order of their start
    products,   \* the Product collection (documents in insertion order)
    orders,     \* the Order collection (documents in insertion order)
    http        \* the last exchange a route handler completed: request, response

vars == <<state, log, calls, products, orders, http>>

----------------------------------------------------------------------------
(* Bounds of the model *)

\* entries of the cart, specification Spec
MaxCart == 2
\* invocations of handleCheckout, specification Spec
MaxCheckouts == 1
\* entries of the cart, specification SpecRace
MaxRaceCart == 1
\* invocations of handleCheckout, specification SpecRace
MaxRaceCheckouts == 2
\* POST /products requests, specification SpecApi
MaxProducts == 2
\* POST /orders requests, specification SpecApi
MaxApiOrders == 2
\* entries of the cart, specification SpecAll
MaxAllCart == 1
\* requests to the routes (of checkouts and of other clients together),
\* specification SpecAll
MaxAllRequests == 2
\* actions dispatched, specification SpecReducer
MaxLog == 5

(* The payloads a user can add to the cart: CartItem {id, name, price}. *)
Items ==
    { [id |-> 1, name |-> "Widget", price |-> 10],
      [id |-> 2, name |-> "Gadget", price |-> 5],
      [id |-> 3, name |-> "Gizmo", price |-> 5] }

ItemIds == {it.id : it \in Items}

(* The products the ProductList offers in the specifications of the whole
   program (the reducer's own specification draws from all of Items). *)
Offered == {it \in Items : it.name \in {"Widget", "Gadget"}}

(* The one product offered in the specifications with several requests. *)
Featured == {it \in Items : it.name = "Widget"}

(* Bodies a client posts to /products: an empty name and a negative price
   are among them. *)
ProductBodies ==
    { [name |-> "", price |-> -1],
      [name |-> "Widget", price |-> 10] }

(* Bodies a client other than the Cart component posts to /orders: a total
   that is not the sum of anything, an id that names no product. *)
OrderBodies ==
    { [products |-> <<[id |-> 0, quantity |-> 2]>>, total |-> 7],
      [products |-> <<[id |-> 1, quantity |-> 1]>>, total |-> 10] }

----------------------------------------------------------------------------
(* Redux setup *)

ADD_TO_CART == "ADD_TO_CART"
REMOVE_FROM_CART == "REMOVE_FROM_CART"
EMPTY_CART == "EMPTY_CART"
REDUX_INIT == "@@redux/INIT"

addToCart(product) == [type |-> ADD_TO_CART, payload |-> product]
removeFromCart(productId) == [type |-> REMOVE_FROM_CART, payload |-> productId]
emptyCart == [type |-> EMPTY_CART]

initialState == [cart |-> <<>>]

(* Mutant of filter: only the first entry of the id is removed. *)
filterFirstMatch(cart, productId) ==
    IF \A k \in DOMAIN cart : cart[k].id # productId THEN cart
    ELSE LET first == CHOOSE k \in DOMAIN cart :
                         /\ cart[k].id = productId
                         /\ \A j \in 1..(k - 1) : cart[j].id # productId
         IN  SubSeq(cart, 1, first - 1) \o SubSeq(cart, first + 1, Len(cart))

(* state.cart.filter(item => item.id !== productId) *)
RECURSIVE filter(_, _)
filter(cart, productId) ==
    IF cart = <<>> THEN <<>>
    ELSE IF Head(cart).id # productId
         THEN <<Head(cart)>> \o filter(Tail(cart), productId)
         ELSE filter(Tail(cart), productId)

(* Mutant of reducer: a product whose id is in the cart is not added again. *)
reducerMergesDuplicates(st, action) ==
    CASE action.type = ADD_TO_CART ->
            IF \E k \in DOMAIN st.cart : st.cart[k].id = action.payload.id
            THEN st
            ELSE [st EXCEPT !.cart = st.cart \o <<action.payload>>]
      [] action.type = REMOVE_FROM_CART ->
            [st EXCEPT !.cart = filter(st.cart, action.payload)]
      [] action.type = EMPTY_CART ->
            [st EXCEPT !.cart = <<>>]
      [] OTHER -> st

(* Mutant of reducer: the case EMPTY_CART is missing and falls to default. *)
reducerWithoutEmptyCase(st, action) ==
    CASE action.type = ADD_TO_CART ->
            [st EXCEPT !.cart = st.cart \o <<action.payload>>]
      [] action.type = REMOVE_FROM_CART ->
            [st EXCEPT !.cart = filter(st.cart, action.payload)]
      [] OTHER -> st

reducer(st, action) ==
    CASE action.type = ADD_TO_CART ->
            [st EXCEPT !.cart = st.cart \o <<action.payload>>]
      [] action.type = REMOVE_FROM_CART ->
            [st EXCEPT !.cart = filter(st.cart, action.payload)]
      [] action.type = EMPTY_CART ->
            [st EXCEPT !.cart = <<>>]
      [] OTHER -> st

(* store.dispatch(action) *)
dispatch(action) == state' = reducer(state, action)

----------------------------------------------------------------------------
(* Mongoose documents *)

(* The _id a new document gets.  ObjectIds are opaque and unique; the model
   numbers the documents in the order they are stored, from 1. *)
ObjectId == Len(products) + Len(orders) + 1

(* Mutant of newProduct: a negative price is stored as 0. *)
newProductClampsPrice(body, id) ==
    [_id |-> id, name |-> body.name,
     price |-> IF body.price < 0 THEN 0 ELSE body.price]

(* new Product(req.body): productSchema has the paths name and price; the
   document gets a generated _id. *)
newProduct(body, id) ==
    [_id |-> id, name |-> body.name, price |-> body.price]

(* Mutant of castLineItem: a schema that is not strict keeps every field. *)
castLineItemKeepsAll(p) == p

(* One element of orderSchema's products array: the subdocument schema has
   the paths id and quantity only, and the schema is strict, so a field
   of the given object that is no path of the schema is not set on the
   subdocument; a path that the object lacks stays unset. *)
castLineItem(p) ==
    [f \in (DOMAIN p) \cap {"id", "quantity"} |-> p[f]]

(* new Order({ products, total }) *)
newOrder(body, id) ==
    [_id |-> id,
     products |-> [i \in 1..Len(body.products) |-> castLineItem(body.products[i])],
     total |-> body.total]

----------------------------------------------------------------------------
(* Cart component *)

(* Mutant of reduce: the callback returns the price instead of adding it. *)
reduceReturnsPrice(cart, acc) ==
    IF cart = <<>> THEN acc ELSE cart[Len(cart)].price

(* cart.reduce((acc, item) => acc + item.price, 0) *)
RECURSIVE reduce(_, _)
reduce(cart, acc) ==
    IF cart = <<>> THEN acc
    ELSE reduce(Tail(cart), acc + Head(cart).price)

(* The body of the request handleCheckout sends:
   JSON.stringify({ products: cart, total }) *)
checkoutBody(cart) ==
    [products |-> cart, total |-> reduce(cart, 0)]

Awaiting(i) == i \in DOMAIN calls /\ calls[i].pc = "await"

(* Number of requests made so far that create a document: those of the
   checkouts, and those of other clients (each of which stored one). *)
requests ==
    Len(calls) + Len(products) + Len(orders)
        - Cardinality({i \in DOMAIN calls : calls[i].status = "201"})

----------------------------------------------------------------------------
Init ==
    /\ state = initialState
    /\ log = <<>>
    /\ calls = <<>>
    /\ products = <<>>
    /\ orders = <<>>
    /\ http = [route |-> "none"]

(* ProductList: <Button onClick={() => addToCart(product)}> *)
AddToCart(product) ==
    /\ dispatch(addToCart(product))
    /\ UNCHANGED <<log, calls, products, orders, http>>

(* Cart: <Button onClick={() => removeFromCart(product.id)}>, one button per
   entry of the cart. *)
RemoveFromCart(productId) ==
    /\ \E i \in DOMAIN state.cart : state.cart[i].id = productId
    /\ dispatch(removeFromCart(productId))
    /\ UNCHANGED <<log, calls, products, orders, http>>

(* Mutant of HandleCheckout: no checkout starts while one is in flight. *)
HandleCheckoutSerialized ==
    /\ \A i \in DOMAIN calls : calls[i].pc # "await"
    /\ calls' = Append(calls, [body |-> checkoutBody(state.cart),
                               status |-> "sent", json |-> <<>>,
                               pc |-> "await", cleared |-> {}])
    /\ UNCHANGED <<state, log, products, orders, http>>

(* handleCheckout up to its await: the total and the request body are
   computed from the cart the component was rendered with, the request is
   sent, and the invocation suspends.  The button has no disabled state and
   the handler no guard.  status and json are the request's fate: "sent"
   until the server handled it, then the response's status and body.  The
   field cleared is history: the ids of the entries that the invocation's
   emptyCart() removed from the cart. *)
HandleCheckout ==
    /\ calls' = Append(calls, [body |-> checkoutBody(state.cart),
                               status |-> "sent", json |-> <<>>,
                               pc |-> "await", cleared |-> {}])
    /\ UNCHANGED <<state, log, products, orders, http>>

(* Mutant of PostOrders: the save replaces the collection's content. *)
PostOrdersReplaces(body) ==
    orders' = <<newOrder(body, ObjectId)>>

(* app.post('/orders') with save() succeeding: the document built from the
   request body is stored. *)
PostOrders(body) ==
    orders' = Append(orders, newOrder(body, ObjectId))

(* app.post('/orders') on the request of invocation i: the stored document
   is the body of the 201 response. *)
PostOrdersOfCheckout(i) ==
    /\ i \in DOMAIN calls
    /\ calls[i].status = "sent"
    /\ PostOrders(calls[i].body)
    /\ calls' = [calls EXCEPT ![i].status = "201",
                              ![i].json = newOrder(calls[i].body, ObjectId)]
    /\ UNCHANGED <<state, log, products, http>>

(* The request of invocation i does not store an order: the body parser
   refuses it, or save() rejects.  The handler has no catch.  The request
   is answered with an error status ("500" stands for any: the parser's,
   or the one of a framework that forwards a handler's rejected promise to
   its error handler) or is never answered (a framework that does not). *)
PostOrdersFails(i) ==
    /\ i \in DOMAIN calls
    /\ calls[i].status = "sent"
    /\ \E s \in {"500", "noreply"} :
         calls' = [calls EXCEPT ![i].status = s]
    /\ UNCHANGED <<state, log, products, orders, http>>

(* Mutant of FetchResolves: the cart is cleared only after a 201. *)
FetchResolvesChecksStatus(i) ==
    /\ Awaiting(i)
    /\ calls[i].status \in {"201", "500"}
    /\ IF calls[i].status = "201"
       THEN /\ dispatch(emptyCart)
            /\ calls' = [calls EXCEPT ![i].pc = "done",
                           ![i].cleared = {state.cart[k].id : k \in DOMAIN state.cart}]
       ELSE /\ UNCHANGED state
            /\ calls' = [calls EXCEPT ![i].pc = "done"]
    /\ UNCHANGED <<log, products, orders, http>>

(* Mutant of FetchResolves: only the entries that were sent are removed. *)
FetchResolvesRemovesSent(i) ==
    /\ Awaiting(i)
    /\ calls[i].status \in {"201", "500"}
    /\ LET sent == {calls[i].body.products[k].id : k \in DOMAIN calls[i].body.products}
           Unsent(entry) == entry.id \notin sent
       IN  /\ state' = [state EXCEPT !.cart = SelectSeq(state.cart, Unsent)]
           /\ calls' = [calls EXCEPT ![i].pc = "done",
                          ![i].cleared = {state.cart[k].id : k \in DOMAIN state.cart} \cap sent]
    /\ UNCHANGED <<log, products, orders, http>>

(* The awaited fetch resolves (a response arrived, whatever its status):
   handleCheckout resumes and calls emptyCart(). *)
FetchResolves(i) ==
    /\ Awaiting(i)
    /\ calls[i].status \in {"201", "500"}
    /\ dispatch(emptyCart)
    /\ calls' = [calls EXCEPT ![i].pc = "done", ![i].cleared = {state.cart[k].id : k \in DOMAIN state.cart}]
    /\ UNCHANGED <<log, products, orders, http>>

(* The awaited fetch rejects (the request or its response is lost): the
   await throws, and the statement after it is not executed. *)
FetchRejects(i) ==
    /\ Awaiting(i)
    /\ calls' = [calls EXCEPT ![i].pc = "threw"]
    /\ UNCHANGED <<state, log, products, orders, http>>

(* app.post('/orders') on the request of another client. *)
ApiPostOrders(body) ==
    /\ PostOrders(body)
    /\ http' = [route |-> "POST /orders", body |-> body,
                status |-> 201, json |-> newOrder(body, ObjectId)]
    /\ UNCHANGED <<state, log, calls, products>>

(* app.post('/products') *)
PostProducts(body) ==
    LET doc == newProduct(body, ObjectId) IN
            /\ products' = Append(products, doc)
        /\ http' = [route |-> "POST /products", body |-> body,
                    status |-> 201, json |-> doc]
        /\ UNCHANGED <<state, log, calls, orders>>

(* app.get('/products'): Product.find() without a filter. *)
GetProducts ==
    /\ http' = [route |-> "GET /products", status |-> 200, json |-> products]
    /\ UNCHANGED <<state, log, calls, products, orders>>

----------------------------------------------------------------------------
(* One session: the cart, its checkouts and the route they post to. *)

Next ==
    \/ Len(state.cart) < MaxCart /\ \E product \in Offered : AddToCart(product)
    \/ \E productId \in ItemIds : RemoveFromCart(productId)
    \/ Len(calls) < MaxCheckouts /\ HandleCheckout
    \/ \E i \in DOMAIN calls : PostOrdersOfCheckout(i)
    \/ \E i \in DOMAIN calls : PostOrdersFails(i)
    \/ \E i \in DOMAIN calls : FetchResolves(i)
    \/ \E i \in DOMAIN calls : FetchRejects(i)

Spec == Init /\ [][Next]_vars

(* Rapid checkouts of one session. *)
NextRace ==
    \/ Len(state.cart) < MaxRaceCart /\ \E product \in Featured : AddToCart(product)
    \/ \E productId \in ItemIds : RemoveFromCart(productId)
    \/ Len(calls) < MaxRaceCheckouts /\ HandleCheckout
    \/ \E i \in DOMAIN calls : PostOrdersOfCheckout(i)
    \/ \E i \in DOMAIN calls : PostOrdersFails(i)
    \/ \E i \in DOMAIN calls : FetchResolves(i)
    \/ \E i \in DOMAIN calls : FetchRejects(i)

SpecRace == Init /\ [][NextRace]_vars

(* The routes, called by clients other than the Cart component. *)
NextApi ==
    \/ Len(orders) < MaxApiOrders /\ \E body \in OrderBodies : ApiPostOrders(body)
    \/ Len(products) < MaxProducts /\ \E body \in ProductBodies : PostProducts(body)
    \/ GetProducts

SpecApi == Init /\ [][NextApi]_vars

(* The whole program: a session and the other clients of the routes. *)
NextAll ==
    \/ Len(state.cart) < MaxAllCart /\ \E product \in Featured : AddToCart(product)
    \/ \E productId \in ItemIds : RemoveFromCart(productId)
    \/ requests < MaxAllRequests /\ HandleCheckout
    \/ \E i \in DOMAIN calls : PostOrdersOfCheckout(i)
    \/ \E i \in DOMAIN calls : PostOrdersFails(i)
    \/ \E i \in DOMAIN calls : FetchResolves(i)
    \/ \E i \in DOMAIN calls : FetchRejects(i)
    \/ requests < MaxAllRequests /\ \E body \in OrderBodies : ApiPostOrders(body)
    \/ requests < MaxAllRequests /\ \E body \in ProductBodies : PostProducts(body)
    \/ GetProducts

SpecAll == Init /\ [][NextAll]_vars

(* The store alone: any sequence of actions dispatched to it. *)
Dispatch(action) ==
    /\ dispatch(action)
    /\ log' = Append(log, action)
    /\ UNCHANGED <<calls, products, orders, http>>

NextReducer ==
    \/ Len(log) < MaxLog /\ \E product \in Items : Dispatch(addToCart(product))
    \/ Len(log) < MaxLog /\ \E productId \in ItemIds : Dispatch(removeFromCart(productId))
    \/ Len(log) < MaxLog /\ Dispatch(emptyCart)
    \/ Len(log) < MaxLog /\ Dispatch([type |-> REDUX_INIT])

SpecReducer == Init /\ [][NextReducer]_vars

----------------------------------------------------------------------------
(* Vocabulary of the properties *)

Last(s) == s[Len(s)]
Front(s) == SubSeq(s, 1, Len(s) - 1)
IsPrefix(s, t) == Len(s) <= Len(t) /\ \A k \in DOMAIN s : t[k] = s[k]
IdsOf(s) == {s[k].id : k \in DOMAIN s}
Matches(cart, productId) == {k \in DOMAIN cart : cart[k].id = productId}

(* The step is the dispatch of an action of the given type (SpecReducer). *)
Dispatched(type) == Len(log') = Len(log) + 1 /\ Last(log').type = type

(* Invocation i leaves its await in this step with the given outcome. *)
Leaves(i, outcome) == calls[i].pc = "await" /\ calls'[i].pc = outcome

(* The sum of the prices of the entries of a cart, from its last entry. *)
RECURSIVE PriceSum(_)
PriceSum(cart) ==
    IF Len(cart) = 0 THEN 0 ELSE Last(cart).price + PriceSum(Front(cart))

(* The cart after a sequence of actions, by the reference semantics: add
   appends, remove keeps the entries of another id, empty clears, any other
   type changes nothing. *)
RECURSIVE Reference(_)
Reference(actions) ==
    IF Len(actions) = 0 THEN <<>>
    ELSE LET before == Reference(Front(actions))
             a == Last(actions)
             Other(entry) == entry.id # a.payload
         IN  IF a.type = ADD_TO_CART THEN Append(before, a.payload)
             ELSE IF a.type = REMOVE_FROM_CART THEN SelectSeq(before, Other)
             ELSE IF a.type = EMPTY_CART THEN <<>>
             ELSE before

----------------------------------------------------------------------------
(* C1: after every finite sequence of actions dispatched to the initially
   empty store, the cart is the sequence the reference semantics computes
   from the actions: no deduplication on add, all entries of the id gone on
   remove and the others kept in order, empty after emptyCart, unchanged by
   an action of any other type. *)
C1_CartIsReference ==
    state = [cart |-> Reference(log)]

(* The same product added twice gives two entries; an action of another type
   and a remove that matches nothing followed. *)
C1_Witness ==
    /\ Len(log) = 4
    /\ log[1].type = ADD_TO_CART /\ log[2].type = ADD_TO_CART
    /\ log[1].payload = log[2].payload
    /\ log[3].type = REDUX_INIT
    /\ log[4].type = REMOVE_FROM_CART
    /\ state.cart = <<log[1].payload, log[1].payload>>

(* C5: a removeFromCart(productId) leaves no entry of that id, however many
   there were; the entries of another id are all still there, in their
   original relative order; when no entry matches the cart is unchanged. *)
C5_RemoveTakesAllMatches ==
    [][Dispatched(REMOVE_FROM_CART) =>
        LET productId == Last(log').payload
            old == state.cart
            new == state'.cart
            \* the position in the new cart of the kept entry old[k]
            pos(k) == k - Cardinality({j \in Matches(old, productId) : j < k})
        IN  /\ Matches(new, productId) = {}
            /\ Len(new) = Len(old) - Cardinality(Matches(old, productId))
            /\ \A k \in DOMAIN old \ Matches(old, productId) : new[pos(k)] = old[k]
            /\ Matches(old, productId) = {} => new = old
      ]_vars

(* An id added twice, with another entry before it and one in between; the
   remove took both and left the others in order. *)
C5_Witness ==
    /\ Len(log) = 5
    /\ \A k \in 1..4 : log[k].type = ADD_TO_CART
    /\ log[5].type = REMOVE_FROM_CART
    /\ log[2].payload = log[4].payload
    /\ log[2].payload.id = log[5].payload
    /\ log[1].payload.id # log[5].payload
    /\ log[3].payload.id # log[5].payload
    /\ log[1].payload # log[3].payload
    /\ state.cart = <<log[1].payload, log[3].payload>>

(* C8: from every cart the store reaches, emptyCart() applied twice gives
   the state that applying it once gives, the empty cart. *)
C8_EmptyCartIdempotent ==
    LET once == reducer(state, emptyCart)
        twice == reducer(once, emptyCart)
    IN  /\ once.cart = <<>>
        /\ twice = once

(* emptyCart() was dispatched twice in a row on a cart of two entries. *)
C8_Witness ==
    /\ Len(log) = 4
    /\ log[1].type = ADD_TO_CART /\ log[2].type = ADD_TO_CART
    /\ log[3].type = EMPTY_CART /\ log[4].type = EMPTY_CART
    /\ state.cart = <<>>

----------------------------------------------------------------------------
(* C2, as claimed: whenever an invocation of handleCheckout is over, its
   request persisted or failed, the step that ends it leaves the cart
   empty. *)
C2_Original ==
    [][\A i \in DOMAIN calls :
          (calls[i].pc = "await" /\ calls'[i].pc # "await") => state'.cart = <<>>
      ]_vars

(* C2, amended: when the awaited fetch resolves, with the status of a stored
   order or with an error status, emptyCart() is dispatched and the cart is
   empty; when it rejects, the invocation ends without dispatching and the
   cart is as it was. *)
C2_ClearedWhenFetchResolves ==
    [][\A i \in DOMAIN calls :
          /\ Leaves(i, "done") =>
                /\ calls[i].status \in {"201", "500"}
                /\ state'.cart = <<>>
          /\ Leaves(i, "threw") => state' = state
          /\ (calls[i].pc = "await" /\ calls[i].status \in {"201", "500"})
                => ENABLED FetchResolves(i)
      ]_vars

(* A checkout of a non-empty cart whose request was answered with an error
   status: no order is stored and the cart is empty. *)
C2_Witness ==
    \E i \in DOMAIN calls :
        /\ calls[i].pc = "done"
        /\ calls[i].status = "500"
        /\ calls[i].body.products # <<>>
        /\ calls[i].cleared # {}
        /\ orders = <<>>
        /\ state.cart = <<>>

(* C3: the start of a checkout adds exactly one request; its products are
   the cart of that moment and its total is the sum of the prices of that
   cart's entries, each entry counted once; a request is never changed after
   it was sent. *)
C3_OneRequestOfCartAndSum ==
    [][/\ Len(calls') >= Len(calls)
       /\ \A i \in DOMAIN calls : calls'[i].body = calls[i].body
       /\ Len(calls') > Len(calls) =>
            /\ Len(calls') = Len(calls) + 1
            /\ Last(calls').body.products = state.cart
            /\ Last(calls').body.total = PriceSum(state.cart)
            /\ DOMAIN Last(calls').body = {"products", "total"}
            /\ Last(calls').status = "sent"
      ]_vars

(* A checkout of a cart that holds the same product twice: the total counts
   it twice. *)
C3_Witness ==
    \E i \in DOMAIN calls :
        LET sent == calls[i].body IN
            /\ Len(sent.products) = 2
            /\ sent.products[1] = sent.products[2]
            /\ sent.total = 2 * sent.products[1].price
            /\ sent.total > 0

(* C10: the emptyCart() at the end of a checkout removes every entry of the
   cart of that moment, also those that were not in the request, and stores
   nothing; the order stored for a request holds the products that were sent,
   whatever the cart holds when it is stored. *)
C10_ClearIsNotLimitedToSent ==
    [][\A i \in DOMAIN calls :
          /\ Leaves(i, "done") =>
                /\ state'.cart = <<>>
                /\ calls'[i].cleared = IdsOf(state.cart)
                /\ orders' = orders
          /\ (calls[i].status = "sent" /\ calls'[i].status = "201") =>
                /\ Len(orders') = Len(orders) + 1
                /\ Len(Last(orders').products) = Len(calls[i].body.products)
                /\ \A k \in DOMAIN calls[i].body.products :
                      Last(orders').products[k].id = calls[i].body.products[k].id
      ]_vars

(* A checkout of one product; while the request was in flight that product
   was removed and another one added: the order holds the removed product,
   the added one was cleared and is in no order. *)
C10_Witness ==
    \E i \in DOMAIN calls :
        /\ calls[i].pc = "done"
        /\ calls[i].status = "201"
        /\ state.cart = <<>>
        /\ \E added \in calls[i].cleared :
              /\ added \notin IdsOf(calls[i].body.products)
              /\ \A n \in DOMAIN orders : added \notin IdsOf(orders[n].products)
        /\ \E removed \in IdsOf(calls[i].body.products) :
              /\ removed \notin calls[i].cleared
              /\ \E n \in DOMAIN orders : removed \in IdsOf(orders[n].products)

----------------------------------------------------------------------------
(* C4: checkouts are not serialized.  A checkout can start in every state,
   also while requests are in flight; started while an earlier one that read
   the present cart is in flight, it sends the same products and total; and
   every request that was stored has an order of its own, so two stored
   requests of the same cart are two orders with the same products and
   total. *)
C4_CheckoutsNotSerialized ==
    /\ ENABLED HandleCheckout
    /\ \A i \in DOMAIN calls :
          (calls[i].pc = "await" /\ calls[i].body.products = state.cart)
              => checkoutBody(state.cart) = calls[i].body
    /\ \A i, j \in DOMAIN calls :
          (i # j /\ calls[i].status = "201" /\ calls[j].status = "201") =>
              \E m, n \in DOMAIN orders :
                  /\ m # n
                  /\ orders[m] = calls[i].json
                  /\ orders[n] = calls[j].json
                  /\ calls[i].body = calls[j].body =>
                        /\ orders[m].products = orders[n].products
                        /\ orders[m].total = orders[n].total

(* Two checkouts in flight at once, both sent from the cart that is still
   there, both stored. *)
C4_Witness ==
    /\ Len(calls) >= 2
    /\ calls[1].pc = "await" /\ calls[2].pc = "await"
    /\ calls[1].status = "201" /\ calls[2].status = "201"
    /\ state.cart # <<>>
    /\ calls[1].body.products = state.cart
    /\ calls[2].body = calls[1].body
    /\ Len(orders) = 2
    /\ orders[1].products = orders[2].products
    /\ orders[1].total = orders[2].total
    /\ orders[1].total > 0

----------------------------------------------------------------------------
(* A step in which the route POST /orders stored an order, as the triple of
   the request's body, the response's status and the response's body.  The
   request is either the one of an invocation of handleCheckout or the one
   of another client. *)
Served(i) == calls[i].status = "sent" /\ calls'[i].status = "201"
OrderStored == Len(orders') > Len(orders)
OrderRequest ==
    IF \E i \in DOMAIN calls : Served(i)
    THEN LET i == CHOOSE i \in DOMAIN calls : Served(i)
         IN  [body |-> calls[i].body, status |-> 201, json |-> calls'[i].json]
    ELSE [body |-> http'.body, status |-> http'.status, json |-> http'.json]

(* C7, as claimed: the order stored is exactly the products and the total
   the caller gave, and it is the body of the 201 response. *)
C7_Original ==
    [][OrderStored =>
        /\ orders' = Append(orders, OrderRequest.json)
        /\ OrderRequest.status = 201
        /\ OrderRequest.json.products = OrderRequest.body.products
        /\ OrderRequest.json.total = OrderRequest.body.total
      ]_vars

(* C7, amended: the order stored holds, for each product the caller gave and
   in the caller's order, its id and its quantity and no other field, and
   exactly the total the caller gave; it has a generated _id and is the body
   of the 201 response.  Neither the total nor the ids are checked against
   the products. *)
C7_StoresIdQuantityAndTotal ==
    [][OrderStored =>
        LET given == OrderRequest.body
            doc == OrderRequest.json
        IN  /\ orders' = Append(orders, doc)
            /\ OrderRequest.status = 201
            /\ \A n \in DOMAIN orders : orders[n]._id # doc._id
            /\ doc.total = given.total
            /\ Len(doc.products) = Len(given.products)
            /\ \A k \in DOMAIN given.products :
                  /\ DOMAIN doc.products[k]
                        = (DOMAIN given.products[k]) \cap {"id", "quantity"}
                  /\ \A f \in DOMAIN doc.products[k] :
                        doc.products[k][f] = given.products[k][f]
      ]_vars

(* Two orders are stored: one of another client, whose total is not the sum
   of anything and whose product id names no product, and one of a checkout,
   of which the id of the cart entry is stored and its name and price are
   not. *)
C7_Witness ==
    /\ \E n \in DOMAIN orders :
          /\ orders[n].total = 7
          /\ orders[n].products = <<[id |-> 0, quantity |-> 2]>>
          /\ \A k \in DOMAIN products : products[k]._id # 0
    /\ \E i \in DOMAIN calls :
          /\ calls[i].status = "201"
          /\ calls[i].body.products # <<>>
          /\ calls[i].body.products[1].name = "Widget"
          /\ \E n \in DOMAIN orders :
                /\ orders[n] = calls[i].json
                /\ orders[n].products = <<[id |-> calls[i].body.products[1].id]>>
                /\ orders[n].total = calls[i].body.total

(* C9: the two collections only grow: every step keeps each stored document,
   with its fields, at its place; a step that changes the cart changes
   neither collection. *)
C9_StoresOnlyGrow ==
    [][/\ IsPrefix(products, products')
       /\ IsPrefix(orders, orders')
       /\ state' # state => (products' = products /\ orders' = orders)
      ]_vars

(* A product and an order were stored; a checkout and its emptyCart() came
   after them, and both documents are as they were stored. *)
C9_Witness ==
    /\ Len(products) = 1 /\ Len(orders) = 1
    /\ products[1] = [_id |-> 1, name |-> "", price |-> -1]
    /\ orders[1]._id = 2
    /\ \E i \in DOMAIN calls :
          /\ calls[i].pc = "done"
          /\ calls[i].json = orders[1]
          /\ calls[i].cleared # {}
    /\ state.cart = <<>>

----------------------------------------------------------------------------
(* C6: a POST /products stores a document with the name and the price of
   the body and an _id no stored document has, appends it to the collection
   and answers 201 with it; no body is refused, an empty name and a negative
   price included; a GET /products answers 200 with the collection, which
   holds every product stored before, name and price unchanged. *)
C6_ProductRoundTrip ==
    /\ [](\A body \in ProductBodies : ENABLED PostProducts(body))
    /\ [][/\ Len(products') > Len(products) =>
               /\ http'.route = "POST /products"
               /\ http'.status = 201
               /\ http'.json.name = http'.body.name
               /\ http'.json.price = http'.body.price
               /\ http'.json._id >= 1
               /\ \A k \in DOMAIN products : products[k]._id # http'.json._id
               /\ \A n \in DOMAIN orders : orders[n]._id # http'.json._id
               /\ products' = Append(products, http'.json)
          /\ (http' # http /\ http'.route = "GET /products") =>
               /\ http'.status = 200
               /\ http'.json = products
               /\ products' = products
          /\ IsPrefix(products, products')
         ]_vars

(* A product with an empty name and a negative price was created, another
   product after it, and a later GET /products lists it unchanged. *)
C6_Witness ==
    /\ http.route = "GET /products"
    /\ Len(http.json) = 2
    /\ http.json[1].name = "" /\ http.json[1].price = -1
    /\ http.json[1]._id # http.json[2]._id
    /\ products = http.json

====
